---------------------------- MODULE Spec2Model ----------------------------
(***************************************************************************)
(* A model of the news scraper (NewsScraper.py) and of the categorization  *)
(* pass (categorizationLLM.py).                                            *)
(*                                                                         *)
(* Text is modelled as a sequence of lexemes: a Python str is a sequence   *)
(* of short strings, each an indivisible run of characters ("http", "://", *)
(* Fence, "json", "[", "\n", ...).  str operations (strip, startswith,     *)
(* endswith, slicing, urljoin, json.loads, re.search) are modelled on      *)
(* these sequences by what they do to the characters.                      *)
(*                                                                         *)
(* The module holds several specifications over the same variables, one    *)
(* per part of the program:                                                *)
(*   SpecPaginate  find_all_pagination_urls against a paginated site       *)
(*   SpecStore     save_to_db, update_article_details, process_articles    *)
(*   SpecParse     flatten_news over model responses                       *)
(***************************************************************************)
EXTENDS Integers, Sequences, FiniteSets, TLC

VARIABLES
    webpages,     \* NewsScrapperGeneral.webpages: one record per base URL
    news,         \* the rows of the SQLite table 'news', in rowid order
    pc,           \* the position of the running handler
    pageIdx,      \* find_all_pagination_urls: index of `page` in self.webpages
    current_url,  \* find_all_pagination_urls: the local current_url
    loaded,       \* environment: the URL the driver has loaded
    outcome,      \* per seed, how its traversal ended (the printed message)
    clock,        \* environment: datetime.now()
    content,      \* environment: the article content the model was shown
    raised        \* whether the running handler ended by raising

vars == <<webpages, news, pc, pageIdx, current_url, loaded, outcome,
          clock, content, raised>>

(***************************************************************************)
(* Python values.  None is a value of its own.                             *)
(***************************************************************************)
None == <<"None">>

\* The empty str.
EmptyStr == <<>>

\* Whitespace characters, as str.strip() and the regex class \s see them.
Whitespace == {" ", "\n"}

RECURSIVE lstrip(_)
\* str.lstrip(): drop leading whitespace.
lstrip(s) ==
    IF s # <<>> /\ Head(s) \in Whitespace THEN lstrip(Tail(s)) ELSE s

RECURSIVE rstrip(_)
\* str.rstrip(): drop trailing whitespace.
rstrip(s) ==
    IF s # <<>> /\ s[Len(s)] \in Whitespace
    THEN rstrip(SubSeq(s, 1, Len(s) - 1))
    ELSE s

\* str.strip()
strip(s) == rstrip(lstrip(s))

\* str.startswith(prefix)
startswith(s, prefix) ==
    /\ Len(s) >= Len(prefix)
    /\ SubSeq(s, 1, Len(prefix)) = prefix

\* str.endswith(suffix)
endswith(s, suffix) ==
    /\ Len(s) >= Len(suffix)
    /\ SubSeq(s, Len(s) - Len(suffix) + 1, Len(s)) = suffix

\* s[n:]
DropFirst(s, n) == SubSeq(s, n + 1, Len(s))

\* s[:-n]
DropLast(s, n) == SubSeq(s, 1, Len(s) - n)

\* x in list
InList(x, list) == \E i \in 1..Len(list) : list[i] = x

\* The index of the first occurrence of lexeme c in s, 0 when there is none.
IndexOf(c, s) ==
    IF \E i \in 1..Len(s) : s[i] = c
    THEN CHOOSE i \in 1..Len(s) : s[i] = c /\ \A j \in 1..(i - 1) : s[j] # c
    ELSE 0

\* The index of the last occurrence of lexeme c in s, 0 when there is none.
LastIndexOf(c, s) ==
    IF \E i \in 1..Len(s) : s[i] = c
    THEN CHOOSE i \in 1..Len(s) : s[i] = c /\ \A j \in (i + 1)..Len(s) : s[j] # c
    ELSE 0

(***************************************************************************)
(* urllib.parse.urljoin on lexeme sequences.  An absolute URL reads        *)
(*   "http" ["s"] "://" host ( "/" segment )* [ "?" query ]                *)
(* and a reference is absolute, an absolute path ("/" ...), a query        *)
(* ("?" ...) or a relative path.                                           *)
(***************************************************************************)
\* urlparse(url).scheme is non-empty: the text up to "://" is a scheme.
HasScheme(url) ==
    \/ Len(url) >= 2 /\ url[1] = "http" /\ url[2] = "://"
    \/ Len(url) >= 3 /\ url[1] = "http" /\ url[2] = "s" /\ url[3] = "://"

\* scheme://netloc of an absolute URL.
SchemeAuthority(url) == SubSeq(url, 1, IndexOf("://", url) + 1)

\* An absolute URL without its query.
WithoutQuery(url) ==
    IF IndexOf("?", url) = 0 THEN url ELSE SubSeq(url, 1, IndexOf("?", url) - 1)

\* scheme://netloc/dir/ : the URL up to and including the last "/" of its path.
BaseDir(url) ==
    LET u == WithoutQuery(url)
        a == SchemeAuthority(url)
    IN  IF LastIndexOf("/", u) > Len(a)
        THEN SubSeq(u, 1, LastIndexOf("/", u))
        ELSE a \o <<"/">>

\* urljoin(base, ref) for an absolute base.
urljoin(base, ref) ==
    IF ref = <<>> THEN base
    ELSE IF HasScheme(ref) THEN ref
    ELSE IF ref[1] = "/" THEN SchemeAuthority(base) \o ref
    ELSE IF ref[1] = "?" THEN WithoutQuery(base) \o ref
    ELSE BaseDir(base) \o ref

(***************************************************************************)
(* NewsScrapperGeneral.__init__                                            *)
(***************************************************************************)
\* An insertion-ordered dict is a sequence of <<key, value>> pairs.
EmptyDict == <<>>

NewPage(url) ==
    [base_url |-> url, paginated_url |-> <<>>,
     html |-> EmptyDict, extracted_news |-> EmptyDict]

NewsScrapperGeneral(base_urls) ==
    [i \in 1..Len(base_urls) |-> NewPage(base_urls[i])]


(***************************************************************************)
(* The environment of pagination discovery: paginated news sites.          *)
(*                                                                         *)
(* Page 1 of a site is the seed, https://host/news; page k > 1 is          *)
(* https://host/news/archive/?page=k.  The page the driver shows carries   *)
(* no anchor, or one anchor to a page t of the site: the following page or *)
(* any earlier one.  `strat` says which of the two XPath rules finds the   *)
(* anchor (1: class Pagination-Link, 2: rel=next, 3: both, with a second   *)
(* rel=next anchor that points at the seed) and `rel` whether hrefs are    *)
(* written relative to the page that carries them (then the anchor leads   *)
(* to the following page or to the seed).  A traversal loads a URL at most *)
(* once, so drawing the anchors when a page is shown is drawing a site.    *)
(***************************************************************************)
\* The largest number of listing pages of a site.
MaxChain == 12

\* The largest number of base URLs given to the scraper.
MaxSeeds == 2

\* The sites of the configured base URLs, one per seed.
Hosts == <<"a.com", "b.com", "c.com", "d.com">>

\* Decimal page numbers, as text.
Num == <<"1", "2", "3", "4", "5", "6", "7", "8", "9", "10", "11", "12", "13",
         "14", "15", "16">>

SeedUrl(h) == <<"http", "s", "://", h, "/", "news">>

HostOf(url) == url[4]

PageUrl(h, k) ==
    IF k = 1 THEN SeedUrl(h)
    ELSE <<"http", "s", "://", h, "/", "news", "/", "archive", "/", "?", "page=", Num[k]>>

\* The page number a URL shows, 0 for a URL that is no page of its site.
PageOf(url) ==
    IF \E k \in 1..MaxChain : PageUrl(HostOf(url), k) = url
    THEN CHOOSE k \in 1..MaxChain : PageUrl(HostOf(url), k) = url
    ELSE 0

\* The reference to page t of host h as written on page k.
HrefTo(h, k, t, rel) ==
    IF ~rel THEN PageUrl(h, t)
    ELSE IF t = 1 THEN <<"/", "news">>
    ELSE IF k = 1 THEN <<"news", "/", "archive", "/", "?", "page=", Num[t]>>
    ELSE <<"?", "page=", Num[t]>>

Anchor(cls, rl, href) == [class |-> cls, rel |-> rl, href |-> href]

\* The anchors of a rendered page, in document order.
Dom(h, k, t, strat, rel) ==
    IF t = 0 THEN <<>>
    ELSE IF strat = 1 THEN <<Anchor("Pagination-Link", "", HrefTo(h, k, t, rel))>>
    ELSE IF strat = 2 THEN <<Anchor("", "next", HrefTo(h, k, t, rel))>>
    ELSE <<Anchor("", "next", HrefTo(h, k, 1, rel)),
           Anchor("Pagination-Link", "", HrefTo(h, k, t, rel))>>

\* The pages the driver may show at a URL: a URL that is no page of the site
\* shows an error page without anchors.
Doms(url) ==
    LET k == PageOf(url)
    IN  IF k = 0 THEN {<<>>}
        ELSE LET following == IF k < MaxChain THEN k + 1 ELSE k
             IN  { Dom(HostOf(url), k, t, strat, FALSE) :
                     t \in 0..following, strat \in 1..3 }
                 \cup
                 { Dom(HostOf(url), k, t, strat, TRUE) :
                     t \in {1, following}, strat \in 1..3 }

(***************************************************************************)
(* find_all_pagination_urls                                                *)
(***************************************************************************)
max_pages == 11

\* //a[contains(@class, "Pagination-Link") and contains(@href, "page=")]
IsPaginationLink(a) == a.class = "Pagination-Link" /\ InList("page=", a.href)

\* //a[@rel="next"]
IsRelNext(a) == a.rel = "next"

\* The anchor matches the XPath rule: 1 for the pagination link, 2 for
\* rel=next.
Matches(rule, a) == IF rule = 1 THEN IsPaginationLink(a) ELSE IsRelNext(a)

\* driver.find_element(By.XPATH, xpath).get_attribute("href"): the href of
\* the first anchor the rule matches, None when no anchor matches (the
\* NoSuchElementException is swallowed by the bare except).
FindHref(dom, rule) ==
    IF \E i \in 1..Len(dom) : Matches(rule, dom[i])
    THEN dom[CHOOSE i \in 1..Len(dom) :
                 Matches(rule, dom[i]) /\ \A j \in 1..(i - 1) : ~Matches(rule, dom[j])].href
    ELSE None

\* `not x` for x a str or None
Falsy(x) == x = None \/ x = EmptyStr

\* Lines 66-78: the next-page href the two rules yield on the shown page.
NextPageHref(dom) ==
    LET first == FindHref(dom, 1)
    IN  IF Falsy(first) THEN FindHref(dom, 2) ELSE first

\* Lines 79-80: a reference that does not start with "http" is joined.
ResolveNext(cur, href) ==
    IF ~Falsy(href) /\ ~startswith(href, <<"http">>) THEN urljoin(cur, href) ELSE href

LimitNever(page) == FALSE

LimitReached_gt(page) == Len(page.paginated_url) > max_pages

\* Line 62
LimitReached(page) == Len(page.paginated_url) >= max_pages

KnownPageIsNew(page, next_page_url) == ~Falsy(next_page_url)

\* Line 81
IsNewPage(page, next_page_url) ==
    ~Falsy(next_page_url) /\ ~InList(next_page_url, page.paginated_url)

AppendPage(pages, i, url) ==
    [pages EXCEPT ![i].paginated_url = Append(@, url)]

AbortsDiscovery(i) == Len(webpages) + 1

\* Lines 88-89: the exception ends the traversal of seed i; the for loop of
\* line 55 goes on with the seed after it.
AfterFailure(i) == i + 1

storeIdle == /\ news = <<>> /\ clock = 1

parseIdle == /\ content = <<>> /\ raised = FALSE

InitPaginate ==
    /\ \E n \in 1..MaxSeeds :
          webpages = NewsScrapperGeneral([i \in 1..n |-> SeedUrl(Hosts[i])])
    /\ pc = "pag_for"
    /\ pageIdx = 1
    /\ current_url = None
    /\ loaded = None
    /\ outcome = <<>>
    /\ storeIdle
    /\ parseIdle

\* Lines 55-60: the next seed is taken up, its URL appended and fetched.
\* driver.get may raise; line 88 then ends this seed's traversal.
PagNextSeed ==
    /\ pc = "pag_for"
    /\ pageIdx <= Len(webpages)
    /\ current_url' = webpages[pageIdx].base_url
    /\ webpages' = AppendPage(webpages, pageIdx, webpages[pageIdx].base_url)
    /\ \E ok \in BOOLEAN :
          IF ok
          THEN /\ loaded' = webpages[pageIdx].base_url
               /\ pc' = "pag_while"
               /\ UNCHANGED <<pageIdx, outcome>>
          ELSE /\ outcome' = Append(outcome, "error")
               /\ pageIdx' = AfterFailure(pageIdx)
               /\ UNCHANGED <<pc, loaded>>
    /\ UNCHANGED <<news, clock, content, raised>>

\* Lines 61-87: what one iteration of the while loop does on the page the
\* driver shows: it leaves the loop at the limit, appends and fetches the
\* next page, or leaves the loop for want of a new next page.
WhileStep(page, cur, dom) ==
    LET next_page_url == ResolveNext(cur, NextPageHref(dom))
    IN  IF LimitReached(page) THEN [kind |-> "limit-reached"]
        ELSE IF IsNewPage(page, next_page_url)
        THEN [kind |-> "append", url |-> next_page_url]
        ELSE [kind |-> "exhausted"]

\* Lines 61-87: one iteration of the while loop on the page the driver shows.
PagWhile ==
    /\ pc = "pag_while"
    /\ \E dom \in Doms(loaded) :
        \E step \in {WhileStep(webpages[pageIdx], current_url, dom)} :
            IF step.kind = "limit-reached"
            THEN /\ outcome' = Append(outcome, "limit-reached")
                 /\ pageIdx' = pageIdx + 1
                 /\ pc' = "pag_for"
                 /\ UNCHANGED <<webpages, loaded>>
            ELSE IF step.kind = "append"
            THEN /\ webpages' = AppendPage(webpages, pageIdx, step.url)
                 /\ \E ok \in BOOLEAN :
                       IF ok
                       THEN /\ loaded' = step.url
                            /\ UNCHANGED <<pc, pageIdx, outcome>>
                       ELSE /\ outcome' = Append(outcome, "error")
                            /\ pageIdx' = AfterFailure(pageIdx)
                            /\ pc' = "pag_for"
                            /\ UNCHANGED loaded
            ELSE /\ outcome' = Append(outcome, "exhausted")
                 /\ pageIdx' = pageIdx + 1
                 /\ pc' = "pag_for"
                 /\ UNCHANGED <<webpages, loaded>>
    /\ UNCHANGED <<current_url, news, clock, content, raised>>

\* Line 90: every seed is done, driver.quit().
PagQuit ==
    /\ pc = "pag_for"
    /\ pageIdx > Len(webpages)
    /\ pc' = "done"
    /\ UNCHANGED <<webpages, news, pageIdx, current_url, loaded, outcome,
                   clock, content, raised>>

NextPaginate == PagNextSeed \/ PagWhile \/ PagQuit

SpecPaginate == InitPaginate /\ [][NextPaginate]_vars

\* find_all_pagination_urls is one thread of straight-line code: each fetch
\* and each element lookup returns or raises (the driver's timeouts), so a
\* step that can be taken is taken.
SpecPaginateLive == InitPaginate /\ [][NextPaginate]_vars /\ WF_vars(NextPaginate)

NoDuplicates(list) ==
    \A i, j \in 1..Len(list) : list[i] = list[j] => i = j

\* C1: once a seed has been taken up by find_all_pagination_urls, and so when
\* the handler is done, its page sequence has at most max_pages entries, starts
\* with the seed URL and holds no URL twice, whatever the site yields and
\* whether or not a fetch fails.
C1_PageSequenceBounded ==
    /\ \A i \in 1..Len(webpages) :
          LET p == webpages[i]
          IN  /\ Len(p.paginated_url) <= max_pages
              /\ p.paginated_url # <<>> => p.paginated_url[1] = p.base_url
              /\ NoDuplicates(p.paginated_url)
    /\ pc = "done" => \A i \in 1..Len(webpages) : webpages[i].paginated_url # <<>>

\* A finished run in which one seed reached the limit, one seed's traversal
\* ended on a failed fetch after it had found further pages.
C1_Witness ==
    /\ pc = "done"
    /\ \E i \in 1..Len(webpages) :
          Len(webpages[i].paginated_url) = max_pages /\ outcome[i] = "limit-reached"
    /\ \E i \in 1..Len(webpages) :
          Len(webpages[i].paginated_url) > 2 /\ outcome[i] = "error"


(***************************************************************************)
(* Python values read from JSON or built by the parser, tagged with their  *)
(* type.  A dict is a function from its keys (str) to values.              *)
(***************************************************************************)
PyNone == [t |-> "None"]

PyStr(s) == [t |-> "str", v |-> s]

PyInt(n) == [t |-> "int", v |-> n]

PyList(l) == [t |-> "list", v |-> l]

PyDict(f) == [t |-> "dict", v |-> f]

\* dict.get(key, default)
DictGet(d, key, default) == IF key \in DOMAIN d.v THEN d.v[key] ELSE default

\* bool(x)
Truthy(x) ==
    CASE x.t = "None" -> FALSE
      [] x.t = "str"  -> x.v # <<>>
      [] x.t = "int"  -> x.v # 0
      [] x.t = "list" -> x.v # <<>>
      [] x.t = "dict" -> DOMAIN x.v # {}

(***************************************************************************)
(* The SQLite table 'news'                                                 *)
(***************************************************************************)
NULL == <<"NULL">>

\* sqlite3 binds None as NULL and a str as TEXT; a list or a dict cannot be
\* bound and c.execute raises.
Bindable(x) == x.t \in {"None", "str", "int"}

Bind(x) ==
    CASE x.t = "None" -> NULL
      [] x.t = "str"  -> x.v
      [] x.t = "int"  -> <<Num[x.v]>>

\* datetime.now().isoformat()
isoformat_now(now) == <<"2026-11-05T10:00:", Num[now]>>

\* The row INSERT ... VALUES (?, ?, ?, ?, ?, ?, ?) writes: the columns it does
\* not name are NULL.
NewRow(title, author, pub_date, link, base_url, paginated_url, created_time) ==
    [Title |-> title, Author |-> author, Publication_Date |-> pub_date,
     Link |-> link, base_url |-> base_url, paginated_url |-> paginated_url,
     created_time |-> created_time, article |-> NULL, keywords |-> NULL,
     main_category |-> NULL, subcategories |-> NULL, summary |-> NULL]

\* The constraints of CREATE TABLE: Link, base_url, paginated_url and
\* created_time are NOT NULL.
NotNullOk(row) ==
    /\ row.Link # NULL
    /\ row.base_url # NULL
    /\ row.paginated_url # NULL
    /\ row.created_time # NULL

HasTitle(table, title) == \E i \in 1..Len(table) : table[i].Title = title

InsertOrReplace(table, row) ==
    IF ~NotNullOk(row) THEN table
    ELSE Append(SelectSeq(table, LAMBDA r : r.Title # row.Title), row)

\* INSERT OR IGNORE: a row that breaks the PRIMARY KEY (Title) or a NOT NULL
\* constraint is skipped.
InsertOrIgnore(table, row) ==
    IF HasTitle(table, row.Title) \/ ~NotNullOk(row) THEN table
    ELSE Append(table, row)

(***************************************************************************)
(* save_to_db                                                              *)
(***************************************************************************)
RECURSIVE ArticlesOfEntries(_, _)
\* The articles of one page record, in the order of lines 286-287.
ArticlesOfEntries(base_url, entries) ==
    IF entries = <<>> THEN <<>>
    ELSE LET e == Head(entries)
         IN  [i \in 1..Len(e[2]) |->
                [base_url |-> base_url, paginated_url |-> e[1], article |-> e[2][i]]]
             \o ArticlesOfEntries(base_url, Tail(entries))

RECURSIVE ArticlesOfPages(_)
\* The articles of self.webpages, in the order of lines 284-287.
ArticlesOfPages(pages) ==
    IF pages = <<>> THEN <<>>
    ELSE ArticlesOfEntries(Head(pages).base_url, Head(pages).extracted_news)
         \o ArticlesOfPages(Tail(pages))

\* Line 292: the stub is skipped unless all four are truthy.
StubComplete(title, link, base_url, paginated_url) ==
    Truthy(title) /\ Truthy(link) /\ base_url # <<>> /\ paginated_url # <<>>

RECURSIVE InsertArticles(_, _, _)
\* Lines 287-298 over the articles; raised when a value cannot be bound.
InsertArticles(table, todo, created_time) ==
    IF todo = <<>> THEN [table |-> table, raised |-> FALSE]
    ELSE LET a == Head(todo).article
             title == DictGet(a, <<"Title">>, PyNone)
             author == DictGet(a, <<"Author">>, PyNone)
             pub_date == DictGet(a, <<"Publication Date">>, PyNone)
             link == DictGet(a, <<"Link">>, PyNone)
         IN  IF ~StubComplete(title, link, Head(todo).base_url, Head(todo).paginated_url)
             THEN InsertArticles(table, Tail(todo), created_time)
             ELSE IF ~(Bindable(title) /\ Bindable(author) /\ Bindable(pub_date)
                       /\ Bindable(link))
             THEN [table |-> table, raised |-> TRUE]
             ELSE InsertArticles(
                      InsertOrIgnore(table,
                          NewRow(Bind(title), Bind(author), Bind(pub_date), Bind(link),
                                 Head(todo).base_url, Head(todo).paginated_url,
                                 created_time)),
                      Tail(todo), created_time)

\* save_to_db: the table after the call.  The inserts are committed at line
\* 299; when c.execute raises, the commit is not reached and the connection's
\* open transaction is rolled back.
save_to_db(table, pages, now) ==
    LET r == InsertArticles(table, ArticlesOfPages(pages), isoformat_now(now))
    IN  IF r.raised THEN [table |-> table, raised |-> TRUE] ELSE r


(***************************************************************************)
(* update_article_details                                                  *)
(*                                                                         *)
(* The Article Content Extractor (newspaper's Article) is the environment: *)
(* for a link it fails (download or parse raises) or yields the text, the  *)
(* authors and the publication date it found.                              *)
(***************************************************************************)
ScrapeFailed == [ok |-> FALSE]

Scraped(text, authors, publish_date) ==
    [ok |-> TRUE, text |-> text, authors |-> authors, publish_date |-> publish_date]

\* What the extractor may yield for a link.
ScrapeResults ==
    { ScrapeFailed,
      Scraped(<<"text one">>, <<>>, None),
      Scraped(<<"text two">>, <<<<"Ann">>, <<"Bob">>>>, <<"2024", "05", "01">>) }

RECURSIVE JoinStr(_, _)
\* sep.join(list)
JoinStr(sep, list) ==
    IF list = <<>> THEN <<>>
    ELSE IF Len(list) = 1 THEN list[1]
    ELSE list[1] \o sep \o JoinStr(sep, Tail(list))

\* datetime.isoformat() of a date at midnight
isoformat(d) == <<d[1], "-", d[2], "-", d[3], "T00:00:00">>

\* SQL COALESCE(a, b)
COALESCE(a, b) == IF a # NULL THEN a ELSE b

\* Line 320: WHERE article IS NULL OR Author IS NULL OR Publication_Date IS NULL
NeedsDetails(row) ==
    row.article = NULL \/ row.Author = NULL \/ row.Publication_Date = NULL

\* Lines 331-337: the UPDATE of one row.
UpdateDetails(row, main_text, scraped_author, scraped_pub_date) ==
    [row EXCEPT !.article = main_text,
                !.Author = COALESCE(scraped_author, row.Author),
                !.Publication_Date = COALESCE(scraped_pub_date, row.Publication_Date)]

\* Lines 323-340 for one selected row and what the extractor yields for it.
ScrapeRow(row, r) ==
    IF ~r.ok THEN row
    ELSE LET db_author == row.Author
             db_pub_date == row.Publication_Date
             main_text == r.text
             scraped_author ==
                 IF r.authors # <<>> THEN JoinStr(<<",", " ">>, r.authors) ELSE db_author
             scraped_pub_date ==
                 IF r.publish_date # None THEN isoformat(r.publish_date) ELSE db_pub_date
         IN  UpdateDetails(row, main_text, scraped_author, scraped_pub_date)

\* The rows the SELECT of line 320 returns.
RowsNeedingDetails(table) == { i \in 1..Len(table) : NeedsDetails(table[i]) }

\* A pass that ends at the first selected row whose extraction fails.
DetailsUntilFailure(table, results) ==
    [i \in 1..Len(table) |->
        IF /\ i \in RowsNeedingDetails(table)
           /\ \A j \in RowsNeedingDetails(table) : j < i => results[j].ok
        THEN ScrapeRow(table[i], results[i])
        ELSE table[i]]

\* update_article_details: the table after the pass, results[i] being what
\* the extractor yields for the selected row i.
update_article_details(table, results) ==
    [i \in 1..Len(table) |->
        IF i \in RowsNeedingDetails(table) THEN ScrapeRow(table[i], results[i])
        ELSE table[i]]

(***************************************************************************)
(* ArticleExtractor: _call_llm and process_articles                        *)
(*                                                                         *)
(* The language model behind the API is the environment: a call fails      *)
(* (transport error, non-success status, text that is no JSON) or yields   *)
(* the parsed JSON value of line 189.                                      *)
(***************************************************************************)
\* The main categories of the system prompt and of the response schema.
Taxonomy ==
    { <<"New Smart Home Devices">>,
      <<"Smart Home Protocols and Standards">>,
      <<"Smart Device Installation and Setup">>,
      <<"Home Automation and Ecosystem Integration">>,
      <<"Energy Efficiency and Sustainability">>,
      <<"IoT Security and Privacy">>,
      <<"Emerging Technologies and Trends">>,
      <<"Troubleshooting and Maintenance">>,
      <<"Lifestyle Applications of Smart Homes">>,
      <<"Developer and Industry News">> }

LlmFailed == [ok |-> FALSE]

LlmParsed(value) == [ok |-> TRUE, value |-> value]

ExtractionJson(keywords, main_category, subcategories, summary) ==
    PyDict([k \in {<<"keywords">>, <<"main_category">>, <<"subcategories">>,
                   <<"summary">>} |->
              CASE k = <<"keywords">> -> keywords
                [] k = <<"main_category">> -> main_category
                [] k = <<"subcategories">> -> subcategories
                [] k = <<"summary">> -> summary])

\* What the model may answer: an object of the schema with a category of the
\* taxonomy, one with a category outside it, an object without a summary, an
\* object whose main_category is null, an object whose summary is a list, an
\* array, or no answer.
LlmResults ==
    { LlmFailed,
      LlmParsed(ExtractionJson(PyList(<<PyStr(<<"matter">>), PyStr(<<"hub">>)>>),
                               PyStr(<<"Emerging Technologies and Trends">>),
                               PyList(<<PyStr(<<"standards">>)>>),
                               PyStr(<<"summary one">>))),
      LlmParsed(ExtractionJson(PyList(<<>>),
                               PyStr(<<"Technology">>),
                               PyList(<<>>),
                               PyStr(<<"summary two">>))),
      LlmParsed(PyDict([k \in {<<"keywords">>, <<"main_category">>} |->
                          IF k = <<"keywords">> THEN PyList(<<>>)
                          ELSE PyStr(<<"IoT Security and Privacy">>)])),
      LlmParsed(ExtractionJson(PyList(<<>>), PyNone, PyList(<<>>),
                               PyStr(<<"summary three">>))),
      LlmParsed(ExtractionJson(PyList(<<>>),
                               PyStr(<<"IoT Security and Privacy">>),
                               PyList(<<>>),
                               PyList(<<PyStr(<<"summary four">>)>>))),
      LlmParsed(PyList(<<>>)) }

IsStrOrList(x) == x.t \in {"str", "list"}

IsStr(x) == x.t = "str"

IsListOfStr(x) == x.t = "list" /\ \A i \in 1..Len(x.v) : x.v[i].t = "str"

\* ArticleExtractionResponse(**parsed_response): the four fields are required,
\* keywords and subcategories lists of str, main_category and summary str.
ValidExtraction(value) ==
    /\ value.t = "dict"
    /\ \A k \in {<<"keywords">>, <<"main_category">>, <<"subcategories">>, <<"summary">>} :
          k \in DOMAIN value.v
    /\ IsListOfStr(value.v[<<"keywords">>])
    /\ IsStr(value.v[<<"main_category">>])
    /\ IsListOfStr(value.v[<<"subcategories">>])
    /\ IsStr(value.v[<<"summary">>])

\* Lines 187-193 and 206-220: whether _call_llm returns an extraction; it
\* raises otherwise and process_articles leaves the row.
CallSucceeds(r) == r.ok /\ ValidExtraction(r.value)

\* json.dumps of a list of str
json_dumps(list) ==
    <<"[">> \o JoinStr(<<",", " ">>, [i \in 1..Len(list) |-> <<"\"">> \o list[i].v \o <<"\"">>])
    \o <<"]">>

SelectsAllRows(row) == TRUE

\* Line 227: WHERE summary IS NULL OR keywords IS NULL OR main_category IS NULL
\* OR subcategories IS NULL
NeedsExtraction(row) ==
    \/ row.summary = NULL
    \/ row.keywords = NULL
    \/ row.main_category = NULL
    \/ row.subcategories = NULL

UpdateSummaryOnly(row, extraction) ==
    [row EXCEPT !.summary = extraction[<<"summary">>].v]

\* Lines 209-216: the UPDATE of one row.
UpdateExtraction(row, extraction) ==
    [row EXCEPT !.keywords = json_dumps(extraction[<<"keywords">>].v),
                !.main_category = extraction[<<"main_category">>].v,
                !.subcategories = json_dumps(extraction[<<"subcategories">>].v),
                !.summary = extraction[<<"summary">>].v]

\* Lines 203-220 for one selected row and the model's answer for it.
ProcessRow(row, r) ==
    IF CallSucceeds(r) THEN UpdateExtraction(row, r.value.v) ELSE row

\* load_articles: the rows the SELECT of line 225 returns.
load_articles(table) == { i \in 1..Len(table) : NeedsExtraction(table[i]) }

\* process_articles: the table after the pass, results[i] being the model's
\* answer for the selected row i.
process_articles(table, results) ==
    [i \in 1..Len(table) |->
        IF i \in load_articles(table) THEN ProcessRow(table[i], results[i])
        ELSE table[i]]

(***************************************************************************)
(* The store: save_to_db, update_article_details and process_articles run  *)
(* one after another, in any order and any number of times, on one table.  *)
(* The stubs save_to_db finds in self.webpages are the environment's.      *)
(***************************************************************************)
\* The largest number of stubs of one run.
MaxStubs == 2

\* The largest number of save_to_db runs.
MaxRuns == 2

Titles == {<<"A">>, <<"B">>}

Stub(title, author, pub_date, link) ==
    PyDict([k \in {<<"Title">>, <<"Author">>, <<"Publication Date">>, <<"Link">>} |->
              CASE k = <<"Title">> -> title
                [] k = <<"Author">> -> author
                [] k = <<"Publication Date">> -> pub_date
                [] k = <<"Link">> -> link])

\* The stubs flatten_news may leave, their values str or null: for title A one
\* without author and date, for both titles one with author, date and another
\* link, and a stub without a Title.
StoreStubs ==
    { Stub(PyStr(<<"A">>), PyNone, PyNone, PyStr(SeedUrl(Hosts[1]) \o <<"/", "A">>)) }
    \cup
    { Stub(PyStr(t), PyStr(<<"Eve">>), PyStr(<<"2024-01-01">>),
           PyStr(SeedUrl(Hosts[1]) \o <<"/", "story", "/">> \o t)) : t \in Titles }
    \cup
    { PyDict([k \in {<<"Link">>} |-> PyStr(SeedUrl(Hosts[1]) \o <<"/", "x">>)]) }

StubLists == UNION { [1..n -> StoreStubs] : n \in 0..MaxStubs }

\* self.webpages after flatten_news: the first stub was found on the seed's
\* page, the others on its second page.
PagesOfStubs(stubs) ==
    << [base_url |-> SeedUrl(Hosts[1]),
        paginated_url |-> <<PageUrl(Hosts[1], 1), PageUrl(Hosts[1], 2)>>,
        html |-> EmptyDict,
        extracted_news |->
            << <<PageUrl(Hosts[1], 1), IF stubs = <<>> THEN <<>> ELSE <<Head(stubs)>> >>,
               <<PageUrl(Hosts[1], 2), IF stubs = <<>> THEN <<>> ELSE Tail(stubs)>> >>] >>

paginateIdle ==
    /\ webpages = <<>> /\ pageIdx = 0 /\ current_url = None /\ loaded = None
    /\ outcome = <<>>

InitStore ==
    /\ news = <<>>
    /\ clock = 1
    /\ pc = "idle"
    /\ paginateIdle
    /\ parseIdle

SaveToDb ==
    /\ clock <= MaxRuns
    /\ \E stubs \in StubLists :
          LET r == save_to_db(news, PagesOfStubs(stubs), clock)
          IN  /\ news' = r.table
              /\ raised' = r.raised
    /\ clock' = clock + 1
    /\ UNCHANGED <<webpages, pc, pageIdx, current_url, loaded, outcome, content>>

UpdateArticleDetails ==
    /\ \E results \in [RowsNeedingDetails(news) -> ScrapeResults] :
          news' = update_article_details(news, results)
    /\ raised' = FALSE
    /\ UNCHANGED <<webpages, pc, pageIdx, current_url, loaded, outcome, clock, content>>

ProcessArticles ==
    /\ \E results \in [load_articles(news) -> LlmResults] :
          news' = process_articles(news, results)
    /\ raised' = FALSE
    /\ UNCHANGED <<webpages, pc, pageIdx, current_url, loaded, outcome, clock, content>>

NextStore == SaveToDb \/ UpdateArticleDetails \/ ProcessArticles

SpecStore == InitStore /\ [][NextStore]_vars

\* C2: the store holds at most one record per title, and running save_to_db a
\* second time on the stubs of a run leaves the table as the first run left it.
C2_NoDuplicateRecords ==
    /\ \A i, j \in 1..Len(news) : news[i].Title = news[j].Title => i = j
    /\ \A stubs \in StubLists :
          LET first == save_to_db(news, PagesOfStubs(stubs), clock).table
          IN  save_to_db(first, PagesOfStubs(stubs), clock + 1).table = first

\* save_to_db has run twice and the table holds two records, one inserted by
\* each run: the second run met the title the first had stored.
C2_Witness ==
    /\ clock > 2
    /\ Len(news) = 2
    /\ news[1].created_time # news[2].created_time

\* C3: update_article_details leaves every non-null body text as it is,
\* whatever the extractor yields.
C3_BodyTextNeverOverwritten ==
    \A results \in [RowsNeedingDetails(news) -> ScrapeResults] :
        \A i \in 1..Len(news) :
            news[i].article # NULL =>
                update_article_details(news, results)[i].article = news[i].article

\* C4: process_articles leaves every non-null main category and every non-null
\* summary as it is, whatever the model answers.
C4_CategoryNeverOverwritten ==
    \A results \in [load_articles(news) -> LlmResults] :
        \A i \in 1..Len(news) :
            LET after == process_articles(news, results)[i]
            IN  /\ news[i].main_category # NULL =>
                      after.main_category = news[i].main_category
                /\ news[i].summary # NULL => after.summary = news[i].summary

\* The table holds a categorized record with body text beside a record that
\* the next categorization pass selects.
C4_Witness ==
    \E i, j \in 1..Len(news) :
        /\ news[i].main_category # NULL
        /\ news[i].summary # NULL
        /\ news[i].article # NULL
        /\ j \in load_articles(news)

\* C5: update_article_details keeps a populated author and a populated
\* publication date, whatever the extractor returns.
C5_AuthorDateNeverOverwritten ==
    \A results \in [RowsNeedingDetails(news) -> ScrapeResults] :
        \A i \in 1..Len(news) :
            LET after == update_article_details(news, results)[i]
            IN  /\ news[i].Author # NULL => after.Author = news[i].Author
                /\ news[i].Publication_Date # NULL =>
                      after.Publication_Date = news[i].Publication_Date

\* C6: a non-null main category is one of the ten values of the taxonomy.
C6_CategoryInTaxonomy ==
    \A i \in 1..Len(news) :
        news[i].main_category # NULL => news[i].main_category \in Taxonomy


(***************************************************************************)
(* json.loads on lexeme sequences.  The lexemes of a JSON text are the     *)
(* brackets, "," and ":", the quote that opens and closes a string (what   *)
(* stands between two quotes is the string), null, numbers and whitespace. *)
(*                                                                         *)
(* CHOOSE r \in {f(x) : x \in {e}} : TRUE  is f(e), written so that e is    *)
(* evaluated once however often f reads x.                                 *)
(***************************************************************************)
\* The first index from i on that holds no whitespace; Len(s) + 1 when none.
SkipWs(s, i) ==
    CHOOSE j \in i..(Len(s) + 1) :
        /\ j = Len(s) + 1 \/ s[j] \notin Whitespace
        /\ \A k \in i..(j - 1) : s[k] \in Whitespace

IsNumber(lex) == \E k \in 1..Len(Num) : Num[k] = lex

NumberOf(lex) == CHOOSE k \in 1..Len(Num) : Num[k] = lex

\* json.JSONDecodeError
JsonError == [ok |-> FALSE]

JsonOk(value, next) == [ok |-> TRUE, val |-> value, next |-> next]

\* A string from the quote at i to the next quote; a line break inside a
\* string is an invalid control character.
JsonString(s, i) ==
    IF \E j \in (i + 1)..Len(s) : s[j] = "\""
    THEN LET j == CHOOSE j \in (i + 1)..Len(s) :
                      s[j] = "\"" /\ \A k \in (i + 1)..(j - 1) : s[k] # "\""
         IN  IF \E k \in (i + 1)..(j - 1) : s[k] = "\n" THEN JsonError
             ELSE JsonOk(PyStr(SubSeq(s, i + 1, j - 1)), j + 1)
    ELSE JsonError

RECURSIVE JsonValue(_, _)
RECURSIVE JsonArray(_, _, _)
RECURSIVE JsonObject(_, _, _)
RECURSIVE JsonMember(_, _, _, _)

\* The elements of an array from i on, acc being the elements read so far.
JsonArray(s, i, acc) ==
    CHOOSE r \in
        { IF ~e.ok THEN JsonError
          ELSE CHOOSE q \in
                   { IF j > Len(s) THEN JsonError
                     ELSE IF s[j] = "," THEN JsonArray(s, j + 1, Append(acc, e.val))
                     ELSE IF s[j] = "]" THEN JsonOk(PyList(Append(acc, e.val)), j + 1)
                     ELSE JsonError : j \in {SkipWs(s, e.next)} } : TRUE
          : e \in {JsonValue(s, i)} } : TRUE

\* The member that follows the key and what follows the member; a repeated
\* key keeps its last value.
JsonMember(s, key, c, acc) ==
    IF c > Len(s) \/ s[c] # ":" THEN JsonError
    ELSE CHOOSE r \in
             { IF ~e.ok THEN JsonError
               ELSE CHOOSE q \in
                        { IF j > Len(s) THEN JsonError
                          ELSE IF s[j] = ","
                          THEN JsonObject(s, j + 1, (key.val.v :> e.val) @@ acc)
                          ELSE IF s[j] = "}"
                          THEN JsonOk(PyDict((key.val.v :> e.val) @@ acc), j + 1)
                          ELSE JsonError : j \in {SkipWs(s, e.next)} } : TRUE
               : e \in {JsonValue(s, c + 1)} } : TRUE

\* The members of an object from i on, acc being the members read so far.
JsonObject(s, i, acc) ==
    CHOOSE r \in
        { IF k > Len(s) \/ s[k] # "\"" THEN JsonError
          ELSE CHOOSE q \in
                   { IF ~key.ok THEN JsonError
                     ELSE CHOOSE m \in { JsonMember(s, key, c, acc)
                                         : c \in {SkipWs(s, key.next)} } : TRUE
                     : key \in {JsonString(s, k)} } : TRUE
          : k \in {SkipWs(s, i)} } : TRUE

\* The value that starts at i, which holds no whitespace.
JsonValueAt(s, i) ==
    IF i > Len(s) THEN JsonError
    ELSE IF s[i] = "null" THEN JsonOk(PyNone, i + 1)
    ELSE IF IsNumber(s[i]) THEN JsonOk(PyInt(NumberOf(s[i])), i + 1)
    ELSE IF s[i] = "\"" THEN JsonString(s, i)
    ELSE IF s[i] = "["
    THEN CHOOSE r \in
             { IF j <= Len(s) /\ s[j] = "]" THEN JsonOk(PyList(<<>>), j + 1)
               ELSE JsonArray(s, i + 1, <<>>) : j \in {SkipWs(s, i + 1)} } : TRUE
    ELSE IF s[i] = "{"
    THEN CHOOSE r \in
             { IF j <= Len(s) /\ s[j] = "}" THEN JsonOk(PyDict(<<>>), j + 1)
               ELSE JsonObject(s, i + 1, <<>>) : j \in {SkipWs(s, i + 1)} } : TRUE
    ELSE JsonError

\* The value that starts at the first lexeme from i0 on that is no whitespace.
JsonValue(s, i0) ==
    CHOOSE r \in { JsonValueAt(s, i) : i \in {SkipWs(s, i0)} } : TRUE

\* json.loads(s): one value, with nothing but whitespace after it.
json_loads(s) ==
    CHOOSE p \in
        { IF r.ok /\ SkipWs(s, r.next) > Len(s) THEN r ELSE JsonError
          : r \in {JsonValue(s, 1)} } : TRUE

(***************************************************************************)
(* flatten_news                                                            *)
(***************************************************************************)
\* \d+\. : the number that opens an entry of a numbered list
IsNumDot(lex) == lex \in {"1.", "2.", "3.", "4."}

IsDash(lex) == lex = "-"

\* The lexeme a label's pattern starts with: a number and a dot for the
\* title, a dash for the others.
IsMarker(label, lex) == IF label = "**Title**:" THEN IsNumDot(lex) ELSE IsDash(lex)

RECURSIVE SplitBlocks(_)
\* re.split(r"\n(?=\d+\.)", text): the text is cut at each line break that a
\* number and a dot follow.
SplitBlocks(s) ==
    IF \E i \in 1..(Len(s) - 1) : s[i] = "\n" /\ IsNumDot(s[i + 1])
    THEN LET i == CHOOSE i \in 1..(Len(s) - 1) :
                      /\ s[i] = "\n" /\ IsNumDot(s[i + 1])
                      /\ \A k \in 1..(i - 1) : ~(s[k] = "\n" /\ IsNumDot(s[k + 1]))
         IN  <<SubSeq(s, 1, i - 1)>> \o SplitBlocks(SubSeq(s, i + 1, Len(s)))
    ELSE <<s>>

\* The pattern  marker \s* label \s* (.*)  matches at i.
LabelAt(block, i, label) ==
    /\ IsMarker(label, block[i])
    /\ SkipWs(block, i + 1) <= Len(block)
    /\ block[SkipWs(block, i + 1)] = label

NoMatch == [found |-> FALSE]

\* re.search(r"<marker>\s*<label>\s*(.*)", block): the leftmost match; group 1
\* runs from the first lexeme after the label that is no whitespace to the end
\* of its line.
SearchLabel(block, label) ==
    IF \E i \in 1..Len(block) : LabelAt(block, i, label)
    THEN LET i == CHOOSE i \in 1..Len(block) :
                      /\ LabelAt(block, i, label)
                      /\ \A k \in 1..(i - 1) : ~LabelAt(block, k, label)
             from == SkipWs(block, SkipWs(block, i + 1) + 1)
             to == CHOOSE e \in from..(Len(block) + 1) :
                      /\ e = Len(block) + 1 \/ block[e] = "\n"
                      /\ \A k \in from..(e - 1) : block[k] # "\n"
         IN  [found |-> TRUE, group |-> SubSeq(block, from, to - 1)]
    ELSE NoMatch

\* Lines 207-218 for one block: the article, or no article.
ArticleOfBlock(block) ==
    LET title_match == SearchLabel(block, "**Title**:")
        pub_date_match == SearchLabel(block, "**Publication Date**:")
        author_match == SearchLabel(block, "**Author**:")
        link_match == SearchLabel(block, "**Link**:")
    IN  IF title_match.found /\ link_match.found /\ strip(link_match.group) # <<>>
        THEN << Stub(PyStr(strip(title_match.group)),
                     IF author_match.found THEN PyStr(strip(author_match.group))
                     ELSE PyNone,
                     IF pub_date_match.found THEN PyStr(strip(pub_date_match.group))
                     ELSE PyNone,
                     PyStr(strip(link_match.group))) >>
        ELSE <<>>

RECURSIVE ArticlesOfBlocks(_)
ArticlesOfBlocks(blocks) ==
    IF blocks = <<>> THEN <<>>
    ELSE ArticleOfBlock(Head(blocks)) \o ArticlesOfBlocks(Tail(blocks))

\* Lines 203-219
convert_markdown_to_articles(markdown_text) ==
    ArticlesOfBlocks(SplitBlocks(strip(markdown_text)))

\* The lexeme of three backquotes, the fence of a code block; a TLA+ string
\* cannot hold the character itself.
Fence == "<fence>"

\* Lines 227-230: a leading fence with the tag json and a closing fence are cut off.
StripFence(news_data) ==
    IF startswith(news_data, <<Fence, "json">>)
    THEN LET body == strip(DropFirst(news_data, 2))
         IN  IF endswith(body, <<Fence>>) THEN strip(DropLast(body, 1)) ELSE body
    ELSE news_data

Flattened(articles) == [kind |-> "ok", articles |-> articles]

\* An exception no handler of flatten_news catches.
Raises == [kind |-> "raise"]

\* The `continue` of lines 225 and 239: the page gets no entry.
Skipped == [kind |-> "continue"]

\* Line 243: the key the link is read from.
LinkKey(article) == <<"Link">>

DecodeErrorRaises == Raises

\* Lines 238-239: a JSONDecodeError is reported and the entry passed over.
OnJsonDecodeError == Skipped

\* Lines 246-247: a link that does not start with "http" is joined against
\* the base URL of the page record, any other link is left as it is.
ResolveLink(base_url, link) ==
    IF ~startswith(link, <<"http">>) THEN urljoin(base_url, link) ELSE link

\* Lines 243-248 for an article that is a dict: valid with the article
\* appended, valid as it was when the link is empty, or Raises.
CheckLink(article, base_url, valid) ==
    CHOOSE r \in
        { IF got.t # "str" THEN Raises
          ELSE CHOOSE q \in
                   { IF link = <<>> THEN Flattened(valid)
                     ELSE IF ~startswith(link, <<"http">>)
                     THEN Flattened(Append(valid,
                              PyDict((<<"Link">> :> PyStr(ResolveLink(base_url, link)))
                                     @@ article.v)))
                     ELSE Flattened(Append(valid, article))
                     : link \in {strip(got.v)} } : TRUE
          : got \in {DictGet(article, LinkKey(article), PyStr(<<>>))} } : TRUE

RECURSIVE ValidArticles(_, _, _)
\* Lines 241-248 over the elements the for loop yields, valid being the list
\* built so far.  A str, a number, a list or None has no get(), and only a
\* str has strip(): the AttributeError is not caught.
ValidArticles(elements, base_url, valid) ==
    IF elements = <<>> THEN Flattened(valid)
    ELSE IF Head(elements).t # "dict" THEN Raises
    ELSE CHOOSE r \in
             { IF step.kind = "raise" THEN Raises
               ELSE ValidArticles(rest, base_url, step.articles)
               : step \in {CheckLink(Head(elements), base_url, valid)},
                 rest \in {Tail(elements)} } : TRUE

\* What `for article in articles` yields: the elements of a list, the keys of
\* a dict.
Iterate(articles) ==
    IF articles.t = "list" THEN articles.v
    ELSE LET keys == DOMAIN articles.v
             order == CHOOSE f \in [1..Cardinality(keys) -> keys] :
                          \A k \in keys : \E i \in 1..Cardinality(keys) : f[i] = k
         IN  [i \in 1..Cardinality(keys) |-> PyStr(order[i])]

\* Lines 231-249 for the text left after the fence is cut off.
FlattenData(news_data, base_url) ==
    IF ~startswith(news_data, <<"[">>) /\ ~startswith(news_data, <<"{">>)
    THEN CHOOSE r \in { ValidArticles(articles, base_url, <<>>)
                        : articles \in {convert_markdown_to_articles(news_data)} } : TRUE
    ELSE CHOOSE r \in
             { IF ~parsed.ok THEN OnJsonDecodeError
               ELSE CHOOSE q \in { ValidArticles(articles, base_url, <<>>)
                                   : articles \in {Iterate(parsed.val)} } : TRUE
               : parsed \in {json_loads(news_data)} } : TRUE

\* Lines 224-249 for one entry of extracted_news.
FlattenEntry(text, base_url) ==
    IF text = EmptyStr THEN Skipped
    ELSE CHOOSE r \in { FlattenData(news_data, base_url)
                        : news_data \in {StripFence(strip(text))} } : TRUE

RECURSIVE FlattenEntries(_, _, _)
\* Lines 222-249 for one page record: new_extracted, or raised.
FlattenEntries(entries, base_url, new_extracted) ==
    IF entries = <<>> THEN [raised |-> FALSE, new_extracted |-> new_extracted]
    ELSE CHOOSE q \in
             { IF r.kind = "raise" THEN [raised |-> TRUE]
               ELSE IF r.kind = "continue"
               THEN FlattenEntries(rest, base_url, new_extracted)
               ELSE FlattenEntries(rest, base_url,
                                   Append(new_extracted, <<Head(entries)[1], r.articles>>))
               : r \in {FlattenEntry(Head(entries)[2], base_url)},
                 rest \in {Tail(entries)} } : TRUE

RECURSIVE FlattenPages(_, _)
\* Lines 221-251 from page record i on: self.webpages when flatten_news
\* returns or raises.
FlattenPages(pages, i) ==
    IF i > Len(pages) THEN [raised |-> FALSE, pages |-> pages]
    ELSE CHOOSE q \in
             { IF r.raised THEN [raised |-> TRUE, pages |-> pages]
               ELSE CHOOSE n \in { FlattenPages(next, i + 1)
                                   : next \in {[pages EXCEPT ![i].extracted_news
                                                                = r.new_extracted]} } : TRUE
               : r \in {FlattenEntries(pages[i].extracted_news, pages[i].base_url, <<>>)}
             } : TRUE

flatten_news(pages) == FlattenPages(pages, 1)

(***************************************************************************)
(* The environment of flatten_news: the LLM Extraction Service's replies.  *)
(*                                                                         *)
(* A reply renders the articles the service found on a page in one of five *)
(* shapes (a bare JSON array, the array in a fence tagged json, the array  *)
(* in an untagged fence, a numbered markdown list, a JSON array with       *)
(* lower-case keys), or it is one of the malformed texts.  `content`       *)
(* records what the reply on the page under test was made of.              *)
(***************************************************************************)
MaxArticles == 2

Found(title, pub_date, author, link) ==
    [title |-> title, pub_date |-> pub_date, author |-> author, link |-> link]

\* The articles a page may show: one with every field and a root-relative
\* link, one with an absolute link and neither date nor author, one with an
\* empty link, one with a relative link to the file http-news.html.
FoundArticles ==
    { Found(PyStr(<<"A">>), PyStr(<<"2024-01-01">>), PyStr(<<"Eve">>),
            PyStr(<<"/", "a">>)),
      Found(PyStr(<<"B">>), PyNone, PyNone,
            PyStr(SeedUrl(Hosts[1]) \o <<"/", "b">>)),
      Found(PyStr(<<"A">>), PyNone, PyStr(<<"Eve">>), PyStr(<<>>)),
      Found(PyStr(<<"C">>), PyNone, PyNone, PyStr(<<"http", "-news.html">>)) }

Contents == UNION { [1..n -> FoundArticles] : n \in 0..MaxArticles }

Keys == <<"Title", "Publication Date", "Author", "Link">>

LowerKeys == <<"title", "publication date", "author", "link">>

JsonOf(x) == IF x.t = "None" THEN <<"null">> ELSE <<"\"">> \o x.v \o <<"\"">>

Member(key, x) == <<"\"", key, "\"", ":", " ">> \o JsonOf(x)

ObjectOf(a, keys) ==
    <<"{">> \o Member(keys[1], a.title) \o <<",", " ">>
            \o Member(keys[2], a.pub_date) \o <<",", " ">>
            \o Member(keys[3], a.author) \o <<",", " ">>
            \o Member(keys[4], a.link) \o <<"}">>

RECURSIVE ObjectsOf(_, _)
ObjectsOf(found, keys) ==
    IF found = <<>> THEN <<>>
    ELSE ObjectOf(Head(found), keys)
         \o (IF Tail(found) = <<>> THEN <<>> ELSE <<",", "\n">>)
         \o ObjectsOf(Tail(found), keys)

ArrayOf(found, keys) == <<"[">> \o ObjectsOf(found, keys) \o <<"]">>

NumDot == <<"1.", "2.", "3.", "4.">>

MdLine(label, x) ==
    IF x.t = "None" THEN <<>> ELSE <<"\n", " ", " ", "-", " ", label, " ">> \o x.v

RECURSIVE MarkdownOf(_, _)
\* The numbered list, its entries numbered from n on; a field that is null
\* has no line.
MarkdownOf(found, n) ==
    IF found = <<>> THEN <<>>
    ELSE LET a == Head(found)
         IN  <<NumDot[n], " ", "**Title**:", " ">> \o a.title.v
             \o MdLine("**Publication Date**:", a.pub_date)
             \o MdLine("**Author**:", a.author)
             \o MdLine("**Link**:", a.link)
             \o (IF Tail(found) = <<>> THEN <<>> ELSE <<"\n">>)
             \o MarkdownOf(Tail(found), n + 1)

Shapes == {"json", "fenced json", "fenced", "markdown", "lower-case keys"}

Render(shape, found) ==
    CASE shape = "json" -> ArrayOf(found, Keys)
      [] shape = "fenced json" ->
             <<Fence, "json", "\n">> \o ArrayOf(found, Keys) \o <<"\n", Fence>>
      [] shape = "fenced" ->
             <<Fence, "\n">> \o ArrayOf(found, Keys) \o <<"\n", Fence>>
      [] shape = "markdown" -> MarkdownOf(found, 1)
      [] shape = "lower-case keys" -> ArrayOf(found, LowerKeys)

\* Texts that are no rendering of a list of articles.
Malformed ==
    [ prose |-> <<"not", " ", "json", " ", "at", " ", "all">>,
      truncated |-> <<"[", "{", "\"", "Title", "\"", ":", " ", "\"", "A", "\"", ",",
                      " ", "\"", "Link", "\"", ":", " ", "\"", "/", "a">>,
      object |-> <<"{">> \o Member("Title", PyStr(<<"A">>)) \o <<",", " ">>
                         \o Member("Link", PyStr(<<"/", "a">>)) \o <<"}">>,
      scalars |-> <<"[", "1", ",", " ", "\"", "x", "\"", "]">>,
      nulllink |-> <<"[", "{">> \o Member("Title", PyStr(<<"A">>)) \o <<",", " ">>
                                \o Member("Link", PyNone) \o <<"}", "]">>,
      empty |-> EmptyStr ]

Reply(c) == IF c.shape \in Shapes THEN Render(c.shape, c.found) ELSE Malformed[c.shape]

\* The replies on the pages that are not under test.
OtherReplies ==
    { Render("json", << CHOOSE a \in FoundArticles : a.title.v = <<"B">> >>),
      Render("markdown", << CHOOSE a \in FoundArticles : a.link.v = <<"/", "a">> >>) }

\* The three pages of the two seeds, in the order flatten_news visits them.
Slots == << [seed |-> 1, page |-> 1], [seed |-> 1, page |-> 2], [seed |-> 2, page |-> 1] >>

\* self.webpages after extract_news_articles_with_chatgpt: the reply `text`
\* on the page of slot k, `others` on the other two.
ExtractedPages(k, text, others) ==
    LET reply(j) == IF j = k THEN text ELSE others[j]
    IN  << [base_url |-> SeedUrl(Hosts[1]),
            paginated_url |-> <<PageUrl(Hosts[1], 1), PageUrl(Hosts[1], 2)>>,
            html |-> EmptyDict,
            extracted_news |-> << <<PageUrl(Hosts[1], 1), reply(1)>>,
                                  <<PageUrl(Hosts[1], 2), reply(2)>> >>],
           [base_url |-> SeedUrl(Hosts[2]),
            paginated_url |-> <<PageUrl(Hosts[2], 1)>>,
            html |-> EmptyDict,
            extracted_news |-> << <<PageUrl(Hosts[2], 1), reply(3)>> >>] >>

Tests ==
    [slot : 1..Len(Slots), shape : Shapes, found : Contents]
    \cup [slot : 1..Len(Slots), shape : DOMAIN Malformed, found : {<<>>}]

InitParse ==
    /\ \E c \in Tests, others \in [1..Len(Slots) -> OtherReplies] :
          /\ content = [test |-> c, replies |-> [others EXCEPT ![c.slot] = Reply(c)]]
          /\ webpages = ExtractedPages(c.slot, Reply(c), others)
    /\ pc = "extracted"
    /\ raised = FALSE
    /\ storeIdle
    /\ pageIdx = 0 /\ current_url = None /\ loaded = None /\ outcome = <<>>

\* flatten_news()
FlattenNews ==
    /\ pc = "extracted"
    /\ \E r \in {flatten_news(webpages)} :
           /\ webpages' = r.pages
           /\ raised' = r.raised
           /\ pc' = IF r.raised THEN "raised" ELSE "flattened"
    /\ UNCHANGED <<news, pageIdx, current_url, loaded, outcome, clock, content>>

\* save_to_db() on what flatten_news left
SaveFlattened ==
    /\ pc = "flattened"
    /\ LET r == save_to_db(news, webpages, clock)
       IN  /\ news' = r.table
           /\ raised' = r.raised
    /\ clock' = clock + 1
    /\ pc' = "saved"
    /\ UNCHANGED <<webpages, pageIdx, current_url, loaded, outcome, content>>

NextParse == FlattenNews \/ SaveFlattened

SpecParse == InitParse /\ [][NextParse]_vars

\* The URL of the page of slot k.
SlotUrl(k) == PageUrl(Hosts[Slots[k].seed], Slots[k].page)

\* The stubs flatten_news left for the page of slot k: none when the page has
\* no entry.
StubsOfSlot(pages, k) ==
    LET entries == pages[Slots[k].seed].extracted_news
    IN  IF \E i \in 1..Len(entries) : entries[i][1] = SlotUrl(k)
        THEN (CHOOSE e \in {entries[i] : i \in 1..Len(entries)} : e[1] = SlotUrl(k))[2]
        ELSE <<>>

\* flatten_news has returned.
Returned == pc \in {"flattened", "saved"}

\* The pages other than the one under test each hold the one stub of their
\* reply.
OthersParsed ==
    \A k \in 1..Len(Slots) :
        k # content.test.slot =>
            /\ Len(StubsOfSlot(webpages, k)) = 1
            /\ StubsOfSlot(webpages, k)
                 = FlattenEntry(content.replies[k], SeedUrl(Hosts[Slots[k].seed])).articles

\* The run in which the page under test got the bare JSON array (capitalized
\* keys) of the same articles: what flatten_news leaves, and the table
\* save_to_db then writes.
CanonicalPages ==
    flatten_news(ExtractedPages(content.test.slot,
                                Render("json", content.test.found),
                                content.replies)).pages

\* Every page holds the stubs it holds in that run.
SameStubsAsCanonical ==
    \A k \in 1..Len(Slots) :
        StubsOfSlot(webpages, k) = StubsOfSlot(CanonicalPages, k)

CanonicalTable == save_to_db(<<>>, CanonicalPages, 1).table

\* C7: flatten_news produces the same stub list for a page whether the reply
\* is the bare JSON array, the array in a fence with the tag json, the array
\* in a fence without a tag, or the equivalent numbered markdown list.
C7_SameStubsForEveryForm ==
    (pc # "extracted" /\ content.test.shape \in {"json", "fenced json", "fenced", "markdown"})
        => /\ Returned
           /\ SameStubsAsCanonical

\* C8: a reply whose stubs have lower-case keys yields the same stubs and the
\* same persisted records as the reply with capitalized keys.
C8_LowerCaseKeysNormalized ==
    (pc # "extracted" /\ content.test.shape = "lower-case keys")
        => /\ Returned
           /\ SameStubsAsCanonical
           /\ pc = "saved" => news = CanonicalTable

\* C9: a reply that is neither parseable JSON nor a numbered markdown list
\* (prose, a truncated JSON array) yields no stub and no record for its page,
\* flatten_news does not raise, and every other page of the same seed and of
\* the later seed is parsed.
C9_MalformedReplyIsNotFatal ==
    (pc # "extracted" /\ content.test.shape \in {"prose", "truncated"})
        => /\ Returned
           /\ ~raised
           /\ StubsOfSlot(webpages, content.test.slot) = <<>>
           /\ OthersParsed
           /\ \A i \in 1..Len(news) :
                 news[i].paginated_url # SlotUrl(content.test.slot)
           /\ pc = "saved" => news # <<>>

C9_Witness ==
    /\ pc = "saved"
    /\ content.test.shape = "truncated"
    /\ content.test.slot = 1
    /\ \E i \in 1..Len(news) : news[i].paginated_url = SlotUrl(2)
    /\ \E i \in 1..Len(news) : news[i].paginated_url = SlotUrl(3)

\* C10: a reply that is well-formed JSON but no array of objects with string
\* links (a single object, an array of non-objects, a stub whose Link is
\* null) does not make flatten_news raise: its unusable stubs are dropped and
\* the other pages are parsed.
C10_WellFormedJsonIsNotFatal ==
    (pc # "extracted" /\ content.test.shape \in {"object", "scalars", "nulllink"})
        => /\ Returned
           /\ ~raised
           /\ StubsOfSlot(webpages, content.test.slot) = <<>>
           /\ OthersParsed

(***************************************************************************)
(* The markdown branch of flatten_news: replies that are numbered lists.   *)
(*                                                                         *)
(* An entry of the list is its number, a Title line or none, and field     *)
(* lines (label and value) in some order; the value of a Link line may be  *)
(* empty.  Entry n has the title "Story n".                                *)
(***************************************************************************)
MaxBlocks == 2

MdField(label, value) == [label |-> label, value |-> value]

DateLine == MdField("**Publication Date**:", <<"2024-01-01">>)

AuthorLine == MdField("**Author**:", <<"Eve">>)

LinkLine == MdField("**Link**:", <<"/", "a">>)

EmptyLinkLine == MdField("**Link**:", <<>>)

\* The field lines of an entry: with a Link line last or first, without a
\* Link line, with an empty Link line last or followed by another line.
FieldLines ==
    { <<>>, <<LinkLine>>, <<DateLine, LinkLine>>, <<AuthorLine, LinkLine>>,
      <<DateLine, AuthorLine, LinkLine>>, <<LinkLine, AuthorLine>>,
      <<DateLine, AuthorLine>>,
      <<EmptyLinkLine>>, <<DateLine, EmptyLinkLine>>,
      <<EmptyLinkLine, AuthorLine>>, <<EmptyLinkLine, DateLine>> }

MdEntries == [titled : BOOLEAN, fields : FieldLines]

MdLists == UNION { [1..n -> MdEntries] : n \in 1..MaxBlocks }

StoryTitle(n) == <<"Story", " ", Num[n]>>

RECURSIVE MdFieldsText(_)
MdFieldsText(fields) ==
    IF fields = <<>> THEN <<>>
    ELSE <<"\n", " ", " ", "-", " ", Head(fields).label>>
         \o (IF Head(fields).value = <<>> THEN <<>> ELSE <<" ">> \o Head(fields).value)
         \o MdFieldsText(Tail(fields))

MdEntryText(e, n) ==
    <<NumDot[n]>>
    \o (IF e.titled THEN <<" ", "**Title**:", " ">> \o StoryTitle(n) ELSE <<>>)
    \o MdFieldsText(e.fields)

RECURSIVE MdListText(_, _)
\* The text of the entries from the n-th on.
MdListText(list, n) ==
    IF n > Len(list) THEN <<>>
    ELSE MdEntryText(list[n], n)
         \o (IF n < Len(list) THEN <<"\n">> ELSE <<>>)
         \o MdListText(list, n + 1)

\* self.webpages after extract_news_articles_with_chatgpt: one seed, one
\* page, the reply on it.
OnePage(text) ==
    << [base_url |-> SeedUrl(Hosts[1]),
        paginated_url |-> <<PageUrl(Hosts[1], 1)>>,
        html |-> EmptyDict,
        extracted_news |-> << <<PageUrl(Hosts[1], 1), text>> >>] >>

InitMarkdown ==
    /\ \E list \in MdLists :
          /\ content = [list |-> list]
          /\ webpages = OnePage(MdListText(list, 1))
    /\ pc = "extracted"
    /\ raised = FALSE
    /\ storeIdle
    /\ pageIdx = 0 /\ current_url = None /\ loaded = None /\ outcome = <<>>

SpecMarkdown == InitMarkdown /\ [][NextParse]_vars

\* The value of the first line of the entry with the label, None when the
\* entry has no such line.
MdValue(e, label) ==
    IF \E i \in 1..Len(e.fields) : e.fields[i].label = label
    THEN PyStr(e.fields[CHOOSE i \in 1..Len(e.fields) :
                            /\ e.fields[i].label = label
                            /\ \A j \in 1..(i - 1) : e.fields[j].label # label].value)
    ELSE PyNone

\* The entry has a Title line and a Link line that is not empty.
MdAccepted(e) == e.titled /\ Truthy(MdValue(e, "**Link**:"))

RECURSIVE MdExpected(_, _)
\* One stub per accepted entry from the n-th on, in order, a field without a
\* line being None.
MdExpected(list, n) ==
    IF n > Len(list) THEN <<>>
    ELSE (IF MdAccepted(list[n])
          THEN << Stub(PyStr(StoryTitle(n)),
                       MdValue(list[n], "**Author**:"),
                       MdValue(list[n], "**Publication Date**:"),
                       PyStr(urljoin(SeedUrl(Hosts[1]),
                                     MdValue(list[n], "**Link**:").v))) >>
          ELSE <<>>)
         \o MdExpected(list, n + 1)

\* C11: in the markdown branch an entry yields a stub iff it has a Title line
\* and a Link line that is not empty; an entry without a Link line is dropped,
\* and a missing Publication Date or Author is null in the stub, flatten_news
\* not raising.
C11_MarkdownBlockAccepted ==
    pc # "extracted" =>
        /\ Returned
        /\ webpages[1].extracted_news
             = << <<PageUrl(Hosts[1], 1), MdExpected(content.list, 1)>> >>
\* The links of the stubs flatten_news left for the page of slot k.
LinksOfSlot(k) ==
    { StubsOfSlot(webpages, k)[i].v[<<"Link">>].v : i \in 1..Len(StubsOfSlot(webpages, k)) }

\* The links of the articles the reply on the page under test was made of.
FoundLinks ==
    { content.test.found[i].link.v : i \in 1..Len(content.test.found) }

\* C12: every link flatten_news leaves in a stub is an absolute URL: a link
\* that was absolute is unchanged, a relative one (also one whose text begins
\* with "http") is the join with the base URL; and resolving a link it left
\* once more changes nothing.
C12_LinkResolution ==
    (Returned /\ content.test.shape \in {"json", "fenced json", "markdown"})
        => /\ \A k \in 1..Len(Slots) : \A link \in LinksOfSlot(k) :
                 /\ HasScheme(link)
                 /\ ResolveLink(SeedUrl(Hosts[Slots[k].seed]), link) = link
           /\ LinksOfSlot(content.test.slot)
                = { IF HasScheme(l) THEN l
                    ELSE urljoin(SeedUrl(Hosts[Slots[content.test.slot].seed]), l)
                    : l \in FoundLinks \ {<<>>} }
\* A step of discovery leaves the record of every seed but the one being
\* traversed as it is, and a seed is taken up with an empty sequence, which
\* becomes the seed URL alone, whatever happened to the seeds before it.
SeedsIndependent ==
    /\ \A k \in 1..Len(webpages) :
          k # pageIdx => webpages'[k] = webpages[k]
    /\ (pc = "pag_for" /\ pageIdx <= Len(webpages) /\ webpages' # webpages)
          => /\ webpages[pageIdx].paginated_url = <<>>
             /\ webpages'[pageIdx].paginated_url = <<webpages[pageIdx].base_url>>
             /\ current_url' = webpages[pageIdx].base_url

\* C13: a failure while one seed is traversed ends the traversal of that seed
\* only.  Each seed is traversed in its turn, from its own URL and touching no
\* other seed's record, so when discovery is done every seed has an outcome
\* and a sequence that starts with its URL, whether or not a seed before or
\* after it failed.
C13_FailureEndsOneSeedOnly ==
    /\ [][SeedsIndependent]_vars
    /\ [](pc = "done" =>
            /\ Len(outcome) = Len(webpages)
            /\ \A i \in 1..Len(webpages) :
                  /\ webpages[i].paginated_url # <<>>
                  /\ webpages[i].paginated_url[1] = webpages[i].base_url)

\* Discovery is done; the first seed failed on its second page and the seed
\* after it was traversed to its third page and beyond.
C13_Witness ==
    /\ pc = "done"
    /\ Len(webpages) = 2
    /\ outcome[1] = "error" /\ Len(webpages[1].paginated_url) = 2
    /\ outcome[2] = "exhausted" /\ Len(webpages[2].paginated_url) >= 3
(***************************************************************************)
(* extract_news_articles_with_chatgpt                                      *)
(*                                                                         *)
(* The LLM Extraction Service is the environment.  A request raises (a     *)
(* transport error), or answers with a status other than 200, or answers   *)
(* 200 with a stream of lines.  A line is empty or carries a body, with or *)
(* without the prefix "data: "; a body is a JSON object with a delta, the  *)
(* end-of-stream marker [DONE], or text that is no JSON.                   *)
(***************************************************************************)
TransportError == [kind |-> "raise"]

StatusNot200 == [kind |-> "status"]

Streamed(lines) == [kind |-> "stream", lines |-> lines]

DeltaLine(text) == [prefix |-> TRUE, body |-> [t |-> "delta", content |-> text]]

DoneLine == [prefix |-> TRUE, body |-> [t |-> "done"]]

NoJsonLine == [prefix |-> FALSE, body |-> [t |-> "text"]]

EmptyLine == [prefix |-> FALSE, body |-> [t |-> "empty"]]

\* json.loads of the body of a line: the chunk object of a delta line; the
\* marker [DONE] and other text are no JSON.
LineJson(body) ==
    IF body.t = "delta"
    THEN JsonOk(PyDict(<<"choices">> :>
                   PyList(<< PyDict(<<"delta">> :>
                                PyDict(<<"content">> :> PyStr(body.content))) >>)),
                0)
    ELSE JsonError

\* The reply text cut into two fragments, streamed with an empty line and a
\* line that is no JSON between them and closed by the marker.
StreamOf(text) ==
    Streamed(<< DeltaLine(SubSeq(text, 1, Len(text) \div 2)),
                EmptyLine, NoJsonLine,
                DeltaLine(SubSeq(text, Len(text) \div 2 + 1, Len(text))),
                DoneLine >>)

\* A stream that goes on after the marker: an empty JSON array, the marker,
\* and one more fragment.
LateFragment ==
    Streamed(<< DeltaLine(<<"[", "]">>), DoneLine, DeltaLine(<<" ", "late">>) >>)

\* What the service may do with the request for a page.
ApiResults ==
    { TransportError, StatusNot200, Streamed(<<DoneLine>>), LateFragment }
    \cup { StreamOf(text) : text \in OtherReplies }

\* The local variable extracted_text: unbound until line 178 first runs.
Unbound == [bound |-> FALSE]

BoundTo(text) == [bound |-> TRUE, v |-> text]

RECURSIVE ConsumeLines(_, _)
\* Lines 180-187: extracted_text after the lines, from extracted_text before.
ConsumeLines(lines, extracted_text) ==
    IF lines = <<>> THEN extracted_text
    ELSE CHOOSE r \in
             { ConsumeLines(rest,
                   IF line.body.t = "empty" \/ ~json_line.ok THEN extracted_text
                   ELSE IF <<"choices">> \in DOMAIN json_line.val.v
                           /\ Truthy(json_line.val.v[<<"choices">>])
                   THEN extracted_text
                        \o DictGet(json_line.val.v[<<"choices">>].v[1].v[<<"delta">>],
                                   <<"content">>, PyStr(<<>>)).v
                   ELSE extracted_text)
               : line \in {Head(lines)}, rest \in {Tail(lines)},
                 json_line \in {LineJson(Head(lines).body)} } : TRUE


\* Lines 191-192: the except clause leaves extracted_text as it was before
\* the request.
OnRequestError(extracted_text) == extracted_text

\* Lines 164-192 for one request: the local extracted_text afterwards.
RequestPage(result, extracted_text) ==
    IF result.kind = "raise" THEN OnRequestError(extracted_text)
    ELSE IF result.kind = "status" THEN BoundTo(<<>>)
    ELSE BoundTo(ConsumeLines(result.lines, <<>>))

RECURSIVE ExtractEntries(_, _, _, _, _)
\* Lines 145-193 for the html entries of one page record from the j-th on, n
\* requests having been made before: the record's extracted_news, the local
\* extracted_text and the number of requests afterwards, or raised (line 193
\* reads the unbound local: UnboundLocalError).
ExtractEntries(html, j, results, n, acc) ==
    IF j > Len(html) THEN [raised |-> FALSE, extracted_news |-> acc.extracted_news,
                           extracted_text |-> acc.extracted_text, n |-> n]
    ELSE CHOOSE r \in
             { IF ~text.bound
               THEN [raised |-> TRUE, extracted_news |-> acc.extracted_news,
                     extracted_text |-> text, n |-> n + 1]
               ELSE ExtractEntries(html, j + 1, results, n + 1,
                        [extracted_news |->
                             Append(acc.extracted_news, <<html[j][1], strip(text.v)>>),
                         extracted_text |-> text])
               : text \in {RequestPage(results[n + 1], acc.extracted_text)} } : TRUE

RECURSIVE ExtractPages(_, _, _, _, _)
\* Lines 144-193 from page record i on.
ExtractPages(pages, i, results, n, extracted_text) ==
    IF i > Len(pages) THEN [raised |-> FALSE, pages |-> pages]
    ELSE CHOOSE q \in
             { CHOOSE p \in
                   { IF r.raised THEN [raised |-> TRUE, pages |-> next]
                     ELSE ExtractPages(next, i + 1, results, r.n, r.extracted_text)
                     : next \in {[pages EXCEPT ![i].extracted_news = r.extracted_news]} }
                   : TRUE
               : r \in {ExtractEntries(pages[i].html, 1, results, n,
                            [extracted_news |-> pages[i].extracted_news,
                             extracted_text |-> extracted_text])} } : TRUE

\* results[n] is what the service does with the n-th request of the run.
extract_news_articles_with_chatgpt(pages, results) ==
    ExtractPages(pages, 1, results, 0, Unbound)

\* The cleaned HTML of the page of slot k.
HtmlOf(k) == <<"<html>", Num[k], "</html>">>

\* self.webpages after get_and_clean_html: the three pages of the two seeds
\* with their cleaned HTML.
CleanedPages ==
    << [base_url |-> SeedUrl(Hosts[1]),
        paginated_url |-> <<SlotUrl(1), SlotUrl(2)>>,
        html |-> << <<SlotUrl(1), HtmlOf(1)>>, <<SlotUrl(2), HtmlOf(2)>> >>,
        extracted_news |-> EmptyDict],
       [base_url |-> SeedUrl(Hosts[2]),
        paginated_url |-> <<SlotUrl(3)>>,
        html |-> << <<SlotUrl(3), HtmlOf(3)>> >>,
        extracted_news |-> EmptyDict] >>

InitExtract ==
    /\ webpages = CleanedPages
    /\ pc = "cleaned"
    /\ parseIdle
    /\ storeIdle
    /\ pageIdx = 0 /\ current_url = None /\ loaded = None /\ outcome = <<>>

\* extract_news_articles_with_chatgpt(); content records what the service
\* did with each request.
ExtractNews ==
    /\ pc = "cleaned"
    /\ \E results \in [1..Len(Slots) -> ApiResults] :
          /\ content' = results
          /\ \E r \in {extract_news_articles_with_chatgpt(webpages, results)} :
                /\ webpages' = r.pages
                /\ raised' = r.raised
                /\ pc' = IF r.raised THEN "extract raised" ELSE "extracted"
    /\ UNCHANGED <<news, pageIdx, current_url, loaded, outcome, clock>>

NextExtract == ExtractNews \/ FlattenNews \/ SaveFlattened

SpecExtract == InitExtract /\ [][NextExtract]_vars
\* The page of slot k has an entry in extracted_news.
HasTextOfSlot(k) ==
    \E i \in 1..Len(webpages[Slots[k].seed].extracted_news) :
        webpages[Slots[k].seed].extracted_news[i][1] = SlotUrl(k)

\* The text recorded for the page of slot k.
TextOfSlot(k) ==
    LET entries == webpages[Slots[k].seed].extracted_news
    IN  (CHOOSE e \in {entries[i] : i \in 1..Len(entries)} : e[1] = SlotUrl(k))[2]

\* C14: when the request for a page raises or is answered with a status other
\* than 200, extract_news_articles_with_chatgpt does not raise, records no
\* text for that page, and goes on: every page whose request is answered
\* gets the text of its own answer, whichever page failed, the first included.
C14_ApiFailureSkipsOnePage ==
    pc \in {"extracted", "extract raised"} =>
        /\ pc = "extracted"
        /\ \A k \in 1..Len(Slots) :
              /\ HasTextOfSlot(k)
              /\ content[k].kind \in {"raise", "status"} => TextOfSlot(k) = EmptyStr
              /\ \A text \in OtherReplies :
                    content[k] = StreamOf(text) => TextOfSlot(k) = text
\* The four fields of a categorization answer.
ExtractionFields == {<<"keywords">>, <<"main_category">>, <<"subcategories">>, <<"summary">>}

\* The call for a row failed, or its answer is no object, lacks one of the
\* four fields, or has a main category or a summary that is not a string or
\* keywords or subcategories that are not a list.
OutsideSchema(r) ==
    \/ r = LlmFailed
    \/ r.value.t # "dict"
    \/ \E k \in ExtractionFields : k \notin DOMAIN r.value.v
    \/ \E k \in {<<"main_category">>, <<"summary">>} : r.value.v[k].t # "str"
    \/ \E k \in {<<"keywords">>, <<"subcategories">>} : r.value.v[k].t # "list"

\* C15: a selected row whose categorization call fails, or whose answer is
\* outside the schema, has every column after process_articles as before it,
\* and load_articles selects it again.
C15_SchemaViolationLeavesRow ==
    \A results \in [load_articles(news) -> LlmResults] :
        \A i \in load_articles(news) :
            OutsideSchema(results[i]) =>
                LET after == process_articles(news, results)
                IN  /\ after[i] = news[i]
                    /\ i \in load_articles(after)

\* A record with body text is still uncategorized, in all four columns, beside
\* a record that a categorization pass has filled.
C15_Witness ==
    \E i, j \in 1..Len(news) :
        /\ news[i].article # NULL
        /\ news[i].summary = NULL /\ news[i].keywords = NULL
        /\ news[i].main_category = NULL /\ news[i].subcategories = NULL
        /\ i \in load_articles(news)
        /\ news[j].summary # NULL
\* C16: in update_article_details and in process_articles, a selected row
\* whose own call succeeds has its update in the table after the pass also
\* when the call for another selected row of the pass failed.
C16_RowFailuresIsolated ==
    /\ \A results \in [RowsNeedingDetails(news) -> ScrapeResults] :
          \A i, j \in RowsNeedingDetails(news) :
              (i # j /\ results[j] = ScrapeFailed /\ results[i] # ScrapeFailed) =>
                  update_article_details(news, results)[i].article = results[i].text
    /\ \A results \in [load_articles(news) -> LlmResults] :
          \A i, j \in load_articles(news) :
              (i # j /\ OutsideSchema(results[j]) /\ ~OutsideSchema(results[i])) =>
                  LET after == process_articles(news, results)[i]
                  IN  /\ after.summary = results[i].value.v[<<"summary">>].v
                      /\ after.main_category = results[i].value.v[<<"main_category">>].v

\* Two records stored by the same save_to_db run: the first has neither body
\* text nor summary, the second has both.  Each pass that filled the second
\* had selected the first as well, and its call for the first had failed.
C16_Witness ==
    /\ Len(news) = 2
    /\ news[1].created_time = news[2].created_time
    /\ news[1].article = NULL /\ news[1].summary = NULL
    /\ news[2].article # NULL /\ news[2].summary # NULL
\* C17: save_to_db leaves every record of the table as it is, in every
\* column, whatever stubs it is given; a stub whose title is stored adds no
\* record.
C17_FirstWriteWins ==
    \A stubs \in StubLists :
        LET after == save_to_db(news, PagesOfStubs(stubs), clock).table
        IN  /\ Len(after) >= Len(news)
            /\ \A i \in 1..Len(news) : after[i] = news[i]
            /\ \A i, j \in 1..Len(after) : after[i].Title = after[j].Title => i = j

\* save_to_db has run twice; the record of title A stored by the first run
\* still has no author and has the body text an enrichment pass gave it, and
\* the record of title B is of the second run.
C17_Witness ==
    /\ clock > 2
    /\ Len(news) = 2
    /\ news[1].Title = <<"A">> /\ news[1].Author = NULL /\ news[1].article # NULL
    /\ news[2].Title = <<"B">>
    /\ news[1].created_time # news[2].created_time
\* C18: an iteration below the limit, on whatever page the driver shows,
\* leaves the loop as exhausted when the two rules yield no URL or a URL that
\* is in the seed's sequence, and appends the yielded URL otherwise; leaving
\* the loop as exhausted leaves every sequence as it is, and the sequence of
\* a seed whose traversal has ended is never extended.
C18_StopsAtFirstKnownOrMissing ==
    /\ [](pc = "pag_while" /\ Len(webpages[pageIdx].paginated_url) < max_pages =>
            \A dom \in Doms(loaded) :
                LET seq == webpages[pageIdx].paginated_url
                    yielded == ResolveNext(current_url, NextPageHref(dom))
                    step == WhileStep(webpages[pageIdx], current_url, dom)
                IN  IF yielded = None \/ yielded = EmptyStr \/ InList(yielded, seq)
                    THEN step.kind = "exhausted"
                    ELSE step.kind = "append" /\ step.url = yielded)
    /\ [][/\ outcome' = Append(outcome, "exhausted") => webpages' = webpages
          /\ \A i \in 1..Len(outcome) : webpages'[i] = webpages[i]]_vars

\* A finished run: the first seed's page yielded no new URL and its sequence
\* is the seed alone; the second seed's traversal stopped, exhausted, on its
\* third page.
C18_Witness ==
    /\ pc = "done"
    /\ Len(webpages) = 2
    /\ outcome[1] = "exhausted" /\ webpages[1].paginated_url = <<webpages[1].base_url>>
    /\ outcome[2] = "exhausted" /\ Len(webpages[2].paginated_url) = 3
IsRelativeHref(href) ==
    href # None /\ href # EmptyStr /\ ~startswith(href, <<"http">>)

\* C20: on the k-th page of a seed, k >= 2, an iteration that appends a URL
\* for a relative href appends the href joined with the URL of that page, the
\* last of the sequence and the one the driver shows.
C20_RelativeNextResolvedOnCurrentPage ==
    (pc = "pag_while" /\ Len(webpages[pageIdx].paginated_url) >= 2) =>
        \A dom \in Doms(loaded) :
            LET seq == webpages[pageIdx].paginated_url
                href == NextPageHref(dom)
                step == WhileStep(webpages[pageIdx], current_url, dom)
            IN  (IsRelativeHref(href) /\ step.kind = "append") =>
                    /\ loaded = seq[Len(seq)]
                    /\ step.url = urljoin(seq[Len(seq)], href)

(***************************************************************************)
(* _call_llm: the lines of the streamed answer                             *)
(***************************************************************************)
RECURSIVE AccumulateChunks(_, _)
\* Lines 143-166 of categorizationLLM.py: accumulated_chunks after the lines.
\* The marker line ends the loop (line 148); an empty line is skipped and a
\* line that is no JSON is skipped by the except clause.
AccumulateChunks(lines, accumulated_chunks) ==
    IF lines = <<>> THEN accumulated_chunks
    ELSE CHOOSE r \in
             { IF line.body.t = "empty" THEN AccumulateChunks(rest, accumulated_chunks)
               ELSE IF line.prefix /\ line.body.t = "done" THEN accumulated_chunks
               ELSE IF ~json_line.ok THEN AccumulateChunks(rest, accumulated_chunks)
               ELSE IF <<"choices">> \in DOMAIN json_line.val.v
                       /\ Truthy(json_line.val.v[<<"choices">>])
               THEN AccumulateChunks(rest,
                        Append(accumulated_chunks,
                               DictGet(DictGet(json_line.val.v[<<"choices">>].v[1],
                                               <<"delta">>, PyDict(EmptyDict)),
                                       <<"content">>, PyStr(<<>>)).v))
               ELSE AccumulateChunks(rest, accumulated_chunks)
               : line \in {Head(lines)}, rest \in {Tail(lines)},
                 json_line \in {LineJson(Head(lines).body)} } : TRUE

\* Line 173: "".join(accumulated_chunks).strip()
JoinChunks(accumulated_chunks) == strip(JoinStr(<<>>, accumulated_chunks))

RECURSIVE DeltasBeforeMarker(_)
\* The delta contents of the lines that come before the first marker line,
\* concatenated in order.
DeltasBeforeMarker(lines) ==
    IF lines = <<>> \/ Head(lines).body.t = "done" THEN <<>>
    ELSE (IF Head(lines).body.t = "delta" THEN Head(lines).body.content ELSE <<>>)
         \o DeltasBeforeMarker(Tail(lines))

\* C21: the text extract_news_articles_with_chatgpt records for a page whose
\* request was answered with a stream, and the text _call_llm accumulates
\* from a stream, is the concatenation, in order, of the delta contents that
\* came before the end-of-stream marker, stripped; what comes after the
\* marker adds nothing.
C21_AccumulationEndsAtMarker ==
    /\ pc = "extracted" =>
          \A k \in 1..Len(Slots) :
              content[k].kind = "stream" =>
                  /\ HasTextOfSlot(k)
                  /\ TextOfSlot(k) = strip(DeltasBeforeMarker(content[k].lines))
    /\ \A r \in ApiResults :
          r.kind = "stream" =>
              JoinChunks(AccumulateChunks(r.lines, <<>>))
                  = strip(DeltasBeforeMarker(r.lines))

\* C22: a record whose main category or summary is not null has a body text.
C22_TextBeforeCategories ==
    \A i \in 1..Len(news) :
        (news[i].main_category # NULL \/ news[i].summary # NULL) =>
            news[i].article # NULL

\* C23: no step of save_to_db, update_article_details or process_articles
\* changes the created_time of a stored record, and a record that a
\* save_to_db run adds carries the time of that run.
C23_CreatedTimeNeverChanges ==
    [][/\ Len(news') >= Len(news)
       /\ \A i \in 1..Len(news) :
             /\ news'[i].Title = news[i].Title
             /\ news'[i].created_time = news[i].created_time
       /\ \A i \in (Len(news) + 1)..Len(news') :
             news'[i].created_time = isoformat_now(clock)]_vars

\* The record of the first save_to_db run still carries the time of that run
\* after a second run, which added a record, and after both enrichment passes
\* wrote to it.
C23_Witness ==
    /\ clock > 2
    /\ Len(news) = 2
    /\ news[1].created_time = isoformat_now(1)
    /\ news[2].created_time = isoformat_now(2)
    /\ news[1].article # NULL /\ news[1].summary # NULL

(***************************************************************************)
(* A pass that is cut short: the process dies at some point of the loop.   *)
(* What the table shows afterwards is what was committed.                  *)
(***************************************************************************)
\* The number of selected rows that come before row i in the table.
SelectedBefore(selected, i) == Cardinality({j \in selected : j < i})

\* process_articles cut short after n selected rows: line 217 commits after
\* each UPDATE, so the rows handled before the crash keep their update; an
\* UPDATE whose commit was not reached is rolled back.
process_articles_crash(table, results, n) ==
    [i \in 1..Len(table) |->
        IF i \in load_articles(table) /\ SelectedBefore(load_articles(table), i) < n
        THEN ProcessRow(table[i], results[i])
        ELSE table[i]]

\* update_article_details cut short: the only commit after the UPDATEs is
\* that of line 341, after the loop, so every UPDATE of the pass is rolled
\* back.
update_article_details_crash(table, results, n) == table

CrashInProcessArticles ==
    /\ \E results \in [load_articles(news) -> LlmResults] :
          \E n \in 0..Cardinality(load_articles(news)) :
              news' = process_articles_crash(news, results, n)
    /\ pc' = "crashed in process_articles"
    /\ raised' = FALSE
    /\ UNCHANGED <<webpages, pageIdx, current_url, loaded, outcome, clock, content>>

CrashInUpdateArticleDetails ==
    /\ \E results \in [RowsNeedingDetails(news) -> ScrapeResults] :
          \E n \in 0..Cardinality(RowsNeedingDetails(news)) :
              news' = update_article_details_crash(news, results, n)
    /\ pc' = "crashed in update_article_details"
    /\ raised' = FALSE
    /\ UNCHANGED <<webpages, pageIdx, current_url, loaded, outcome, clock, content>>

\* Every pass is a run of its script, so a pass may follow one that was cut
\* short; pc names the pass that was cut short last.
NextStoreCrash ==
    NextStore \/ CrashInProcessArticles \/ CrashInUpdateArticleDetails

SpecStoreCrash == InitStore /\ [][NextStoreCrash]_vars

\* C24: in every state of the table, also after a pass that was cut short,
\* the four categorical columns of a record are all null or all non-null;
\* and a pass that is cut short leaves each record as it was or as a whole
\* update of that pass leaves it.
C24_UpdatesAtomicPerRecord ==
    /\ \A i \in 1..Len(news) :
          \/ /\ news[i].keywords = NULL /\ news[i].main_category = NULL
             /\ news[i].subcategories = NULL /\ news[i].summary = NULL
          \/ /\ news[i].keywords # NULL /\ news[i].main_category # NULL
             /\ news[i].subcategories # NULL /\ news[i].summary # NULL
    /\ \A results \in [load_articles(news) -> LlmResults] :
          \A n \in 0..Cardinality(load_articles(news)) :
              \A i \in 1..Len(news) :
                  LET cut == process_articles_crash(news, results, n)[i]
                  IN  cut = news[i] \/ cut = process_articles(news, results)[i]
    /\ \A results \in [RowsNeedingDetails(news) -> ScrapeResults] :
          \A n \in 0..Cardinality(RowsNeedingDetails(news)) :
              \A i \in 1..Len(news) :
                  LET cut == update_article_details_crash(news, results, n)[i]
                  IN  cut = news[i] \/ cut = update_article_details(news, results)[i]

\* A categorization pass over two records of one save_to_db run was cut short
\* after the first: the first has its four columns, the second none.
C24_Witness ==
    /\ pc = "crashed in process_articles"
    /\ Len(news) = 2
    /\ news[1].created_time = news[2].created_time
    /\ news[1].summary # NULL /\ news[1].keywords # NULL
    /\ news[2].summary = NULL /\ news[2].keywords = NULL
    /\ news[2].main_category = NULL /\ news[2].subcategories = NULL

\* C25: for a page whose request raised, extract_news_articles_with_chatgpt
\* records no text of another page under its URL (its text is empty), and
\* after save_to_db no record has that page as its paginated_url.
C25_NoTextOfAnotherPage ==
    \A k \in 1..Len(Slots) :
        (pc \in {"extracted", "flattened", "saved"} /\ content[k] = TransportError) =>
            /\ pc = "extracted" => (HasTextOfSlot(k) => TextOfSlot(k) = EmptyStr)
            /\ \A i \in 1..Len(news) : news[i].paginated_url # SlotUrl(k)
=============================================================================
